---- MODULE Spec2Model ----
(***************************************************************************)
(* Model of the sentinel presence agent: the TemporalFilter debounce and   *)
(* the detection decoding of skills/vision_skill.py, the                   *)
(* safety-questioning protocol of skills/conversation_skill.py             *)
(* (SentinelMemory + ConversationSkill), the Telegram transport of         *)
(* skills/telegram_bot.py, the LLM chat history it shares with             *)
(* sentinel_cli.py and skills/voice_chat.py, and the provider fallback of  *)
(* skills/cloud_fallback.py.                                               *)
(*                                                                         *)
(* Confidences and thresholds are floats in the code; they are modelled    *)
(* as integers in hundredths (0.85 -> 85), which keeps the order `>`.      *)
(* Every invocation of conversation_skill.py is one OS process with its    *)
(* own sqlite3 connection; Procs are the invocations that may overlap.     *)
(* Each store operation (a SELECT, or an INSERT followed by commit) is one *)
(* atomic step, and may instead raise.                                     *)
(***************************************************************************)
EXTENDS Integers, Sequences, FiniteSets, TLC

VARIABLES threshold, consecutive, buffer, fed, ret, frames, vres,
          rows, turns, pc, loc, state, ustate, result, exc,
          lastAction, askResponses, calls, depth,
          raw, det, clock, stamps, ids, sres,
          user_sessions, chat_mode, bot, update, handled, notice, now,
          program, chat_history, messages, query, qres

fvars == <<threshold, consecutive, buffer, fed, ret, frames, vres>>
cvars == <<rows, turns, pc, loc, state, ustate, result, exc,
           lastAction, askResponses, calls, depth>>
dvars == <<raw, det>>
svars == <<clock, stamps, ids, sres>>
vars == <<threshold, consecutive, buffer, fed, ret, frames, vres,
          rows, turns, pc, loc, state, ustate, result, exc,
          lastAction, askResponses, calls, depth, raw, det,
          clock, stamps, ids, sres,
          user_sessions, chat_mode, bot, update, handled, notice, now,
          program, chat_history, messages, query, qres>>
tvars == <<user_sessions, chat_mode, bot, update, handled, notice, now,
           program, chat_history, messages>>
qvars == <<query, qres>>

----------------------------------------------------------------------------
(* Bounds *)

MaxFrames == 6
MaxConsecutive == 3
MaxCalls == 3
MaxSeqCalls == 4
MaxDepth == 4
MaxFairCalls == 3
MaxBoxes == 3
MaxCandidates == 2
NumClasses == 2
MaxTurns == 3
MaxClock == 2
MaxLimit == 2
MaxPairCalls == 3
MaxRuns == 4
MaxMainCalls == 3
MaxChatLen == 12
MaxChatUpdates == 8
MaxUpdates == 4
MaxNow == 1

(* Program constants *)

DefaultThreshold == 85
DefaultConsecutive == 3
HistoryLimit == 10
PersonClass == 0
GeometryValues == 4
KeepLast == 10
HistoryCap == 11

Confidences == {50, 85, 90}
Thresholds == {50, 85}

Sessions == {"s1", "s2"}

(* the ids execute makes up for a context without session_id (line 211):   *)
(* "session_<timestamp>", a new one at every call                          *)
GeneratedIds == <<"session_1", "session_2", "session_3", "session_4", "session_5">>

(* the users of the Telegram bot, and the ids start_conversation makes up  *)
(* (telegram_bot.py line 184): "telegram_<user_id>_<seconds of the loop    *)
(* clock>", the same id for two conversations started within one second    *)
Users == {"u1", "u2"}

TelegramIds ==
    [u1 |-> <<"telegram_1_0", "telegram_1_1", "telegram_1_2">>,
     u2 |-> <<"telegram_2_0", "telegram_2_1", "telegram_2_2">>]

AllSessions ==
    Sessions \cup {GeneratedIds[i] : i \in 1..Len(GeneratedIds)}
             \cup {TelegramIds[u][i] : u \in Users, i \in 1..3}
Procs == {"p1", "p2"}

----------------------------------------------------------------------------
(* TemporalFilter *)

AboveOrEqual(confidence, t) == confidence >= t

Above(confidence, t) == confidence > t

All(buf) == \A i \in 1..Len(buf) : buf[i]

Pushed(buf, b) == Append(buf, b)

EvictedNewest(buf, cap) ==
    IF Len(buf) > cap THEN SubSeq(buf, 1, Len(buf) - 1) ELSE buf

Evicted(buf, cap) == IF Len(buf) > cap THEN Tail(buf) ELSE buf

ConfirmedNonEmpty(buf, cap) == Len(buf) = cap /\ buf # <<>> /\ All(buf)

Confirmed(buf, cap) == Len(buf) = cap /\ All(buf)

NoFrameResult == [person_present |-> FALSE, confidence |-> 0, error |-> "none",
                  trigger_conversation |-> FALSE]

FilterInit ==
    /\ buffer = <<>>
    /\ fed = <<>>
    /\ ret = FALSE
    /\ frames = <<>>
    /\ vres = NoFrameResult

UpdateAutoReset(confidence) ==
    /\ Len(fed) < MaxFrames
    /\ LET b == Evicted(Pushed(buffer, Above(confidence, threshold)), consecutive)
       IN  /\ buffer' = IF Confirmed(b, consecutive) THEN <<>> ELSE b
           /\ ret' = Confirmed(b, consecutive)
    /\ fed' = Append(fed, confidence)
    /\ UNCHANGED <<threshold, consecutive>>

Update(confidence) ==
    /\ Len(fed) < MaxFrames
    /\ LET b == Evicted(Pushed(buffer, Above(confidence, threshold)), consecutive)
       IN  /\ buffer' = b
           /\ ret' = Confirmed(b, consecutive)
    /\ fed' = Append(fed, confidence)
    /\ UNCHANGED <<threshold, consecutive>>

ResetNothing ==
    /\ fed' = <<>>
    /\ UNCHANGED <<threshold, consecutive, buffer, ret>>

Reset ==
    /\ buffer' = <<>>
    /\ fed' = <<>>
    /\ UNCHANGED <<threshold, consecutive, ret>>

(* VisionSkill.execute on one frame.  A frame is what the camera and the  *)
(* detector make of it: the capture may fail, the image may be unreadable  *)
(* (detect_person then returns 0.0 and an error), or a person is detected  *)
(* with some confidence.  frames records the confidence each result        *)
(* reported.                                                               *)
Frames ==
    {[captured |-> FALSE, readable |-> FALSE, confidence |-> 0],
     [captured |-> TRUE, readable |-> FALSE, confidence |-> 0]}
    \cup {[captured |-> TRUE, readable |-> TRUE, confidence |-> c] : c \in Confidences}

FrameError(f) ==
    IF ~f.captured THEN "Failed to capture frame"
    ELSE IF ~f.readable THEN "Failed to read image"
    ELSE "none"

VisionExecute(f) ==
    /\ Len(frames) < MaxFrames
    /\ IF FrameError(f) # "none"
       THEN /\ vres' = [person_present |-> FALSE, confidence |-> 0,
                        error |-> FrameError(f),
                        trigger_conversation |-> FALSE]
            /\ UNCHANGED <<threshold, consecutive, buffer, fed, ret>>
       ELSE /\ Update(f.confidence)
            /\ vres' = [person_present |-> ret', confidence |-> f.confidence,
                        error |-> "none", trigger_conversation |-> ret']
    /\ frames' = Append(frames, vres'.confidence)

(* vision_skill.py main: one process per run.  VisionSkill.__init__ builds *)
(* a TemporalFilter whose buffer is [] whatever window the previous        *)
(* process had; loading the model may raise, which main answers with an    *)
(* error result; otherwise execute runs once on the frame.  A result       *)
(* without the key trigger_conversation is read as False by its consumer.  *)
KeptWindow(old) == old

NewWindow(old) == <<>>

VisionMain(f, loaded) ==
    /\ Len(frames) < MaxRuns
    /\ IF ~loaded
       THEN /\ vres' = [person_present |-> FALSE, confidence |-> 0,
                        error |-> "No YOLO model found",
                        trigger_conversation |-> FALSE]
            /\ buffer' = NewWindow(buffer)
            /\ fed' = <<>>
            /\ UNCHANGED ret
       ELSE IF FrameError(f) # "none"
       THEN /\ vres' = [person_present |-> FALSE, confidence |-> 0,
                        error |-> FrameError(f),
                        trigger_conversation |-> FALSE]
            /\ buffer' = NewWindow(buffer)
            /\ fed' = <<>>
            /\ UNCHANGED ret
       ELSE LET b == Evicted(Pushed(NewWindow(buffer),
                                    Above(f.confidence, threshold)), consecutive)
            IN  /\ buffer' = b
                /\ ret' = Confirmed(b, consecutive)
                /\ fed' = <<f.confidence>>
                /\ vres' = [person_present |-> Confirmed(b, consecutive),
                            confidence |-> f.confidence, error |-> "none",
                            trigger_conversation |-> Confirmed(b, consecutive)]
    /\ frames' = Append(frames, vres'.confidence)
    /\ UNCHANGED <<threshold, consecutive>>

----------------------------------------------------------------------------
(* VisionSkill.detect_person.  raw is what cv2.imread and the detector    *)
(* make of one image: the image may be unreadable; otherwise the detector  *)
(* gives either boxes, a list of (cls, conf) pairs (ultralytics), or a     *)
(* tensor whose rows are 4 geometry values followed by one score per       *)
(* class (onnxruntime).  det is what detect_person returned for it.        *)

ClassIds == 0..(NumClasses - 1)

Scores == {10, 50, 90}

Geometries == {<<320, 240, 99, 60>>}

RECURSIVE SeqsUpTo(_, _)
SeqsUpTo(S, n) ==
    IF n = 0 THEN {<<>>}
    ELSE LET shorter == SeqsUpTo(S, n - 1)
         IN  shorter \cup {Append(q, x) : q \in shorter, x \in S}

Boxes == ClassIds \X Confidences

Candidates == {g \o v : g \in Geometries, v \in [1..NumClasses -> Scores]}

NoRaw == [readable |-> FALSE, layout |-> "parsed", data |-> <<>>]

RawOutputs ==
    {NoRaw}
    \cup {[readable |-> TRUE, layout |-> "parsed", data |-> b] :
            b \in SeqsUpTo(Boxes, MaxBoxes)}
    \cup {[readable |-> TRUE, layout |-> "tensor", data |-> d] :
            d \in SeqsUpTo(Candidates, MaxCandidates)}

NoDetection == [done |-> FALSE, confidence |-> 0, error |-> "none"]

(* lines 147-152: the loop over zip(boxes.cls, boxes.conf) *)
RECURSIVE ParsedLoopLast(_, _)
ParsedLoopLast(boxes, max_confidence) ==
    IF boxes = <<>> THEN max_confidence
    ELSE LET cls == Head(boxes)[1]
             conf == Head(boxes)[2]
         IN  ParsedLoopLast(Tail(boxes),
                            IF cls = PersonClass THEN conf ELSE max_confidence)

RECURSIVE ParsedLoop(_, _)
ParsedLoop(boxes, max_confidence) ==
    IF boxes = <<>> THEN max_confidence
    ELSE LET cls == Head(boxes)[1]
             conf == Head(boxes)[2]
         IN  ParsedLoop(Tail(boxes),
                        IF cls = PersonClass /\ conf > max_confidence
                        THEN conf ELSE max_confidence)

(* np.argmax: the index of the first maximal entry, counted from 0 *)
ArgMaxPerson(v) == PersonClass

ArgMax(v) ==
    (CHOOSE i \in 1..Len(v) :
        /\ \A j \in 1..Len(v) : v[j] <= v[i]
        /\ \A j \in 1..(i - 1) : v[j] < v[i]) - 1

(* line 165: det[4:] *)
ClassConfidences(d) == SubSeq(d, GeometryValues + 1, Len(d))

(* lines 163-169: the loop over the rows of the transposed tensor *)
RECURSIVE TensorLoop(_, _)
TensorLoop(detections, max_confidence) ==
    IF detections = <<>> THEN max_confidence
    ELSE LET class_confidences == ClassConfidences(Head(detections))
             class_id == ArgMax(class_confidences)
             confidence == class_confidences[class_id + 1]
         IN  TensorLoop(Tail(detections),
                        IF class_id = PersonClass /\ confidence > max_confidence
                        THEN confidence ELSE max_confidence)

detect_person(r) ==
    IF ~r.readable
    THEN [done |-> TRUE, confidence |-> 0, error |-> "Failed to read image"]
    ELSE IF r.layout = "parsed"
    THEN [done |-> TRUE, confidence |-> ParsedLoop(r.data, 0), error |-> "none"]
    ELSE [done |-> TRUE, confidence |-> TensorLoop(r.data, 0), error |-> "none"]

DecodeInit ==
    /\ raw = NoRaw
    /\ det = NoDetection

Detect ==
    /\ ~det.done
    /\ det' = detect_person(raw)
    /\ UNCHANGED raw

----------------------------------------------------------------------------
(* Strings: the replies a caller may send, with their characters, so that  *)
(* str.lower() and the `in` substring test are computed, not assumed.      *)

NoInput == "<absent>"

Replies == {"ok", "need Tool"}

UserInputs == {NoInput, ""} \cup Replies

SeqInputs == UserInputs \cup {"MAINTENANCE"}

OverlapInputs == {NoInput, "need Tool"}

OverlapSessions == {"s1"}

Chars(s) ==
    CASE s = "" -> <<>>
      [] s = "ok" -> <<"o", "k">>
      [] s = "need Tool" -> <<"n", "e", "e", "d", " ", "T", "o", "o", "l">>
      [] s = "MAINTENANCE" -> <<"M", "A", "I", "N", "T", "E", "N", "A", "N", "C", "E">>
      [] s = "maintenance" -> <<"m", "a", "i", "n", "t", "e", "n", "a", "n", "c", "e">>
      [] s = "tool" -> <<"t", "o", "o", "l">>

UpperCase == <<"A", "C", "E", "I", "M", "N", "T", "O", "L">>
LowerCase == <<"a", "c", "e", "i", "m", "n", "t", "o", "l">>

LowerChar(c) ==
    IF \E i \in 1..Len(UpperCase) : UpperCase[i] = c
    THEN LowerCase[CHOOSE i \in 1..Len(UpperCase) : UpperCase[i] = c]
    ELSE c

NotLowered(cs) == cs

Lower(cs) == [i \in 1..Len(cs) |-> LowerChar(cs[i])]

Contains(needle, hay) ==
    \E k \in 0..(Len(hay) - Len(needle)) :
        \A i \in 1..Len(needle) : hay[k + i] = needle[i]

Truthy(user_input) == user_input \notin {NoInput, ""}

----------------------------------------------------------------------------
(* ConversationSkill.QUESTIONS; Python indexes it from 0.                  *)

QUESTIONS ==
    << [id |-> "task_identification", text |-> "What task are you performing?",
        type |-> "open_ended", required |-> TRUE],
       [id |-> "safety_confirmation", text |-> "Are safety protocols confirmed?",
        type |-> "boolean", required |-> TRUE],
       [id |-> "tool_requirements", text |-> "Do you require tool access?",
        type |-> "conditional", required |-> FALSE] >>

Question(i) == QUESTIONS[i + 1]

NULL == "<NULL>"

----------------------------------------------------------------------------
(* SentinelMemory *)

EmptyContext == [k \in {} |-> ""]

ZeroState == [step |-> 0, last_question |-> NULL, awaiting |-> FALSE,
              context |-> EmptyContext]

Bool(i) == i # 0

get_state_default_one(r, session_id) ==
    IF session_id \notin DOMAIN r
    THEN [ZeroState EXCEPT !.step = 1]
    ELSE [step |-> r[session_id].current_step,
          last_question |-> r[session_id].last_question,
          awaiting |-> Bool(r[session_id].awaiting_reply),
          context |-> r[session_id].context_json]

get_state(r, session_id) ==
    IF session_id \notin DOMAIN r
    THEN ZeroState
    ELSE [step |-> r[session_id].current_step,
          last_question |-> r[session_id].last_question,
          awaiting |-> Bool(r[session_id].awaiting_reply),
          context |-> r[session_id].context_json]

DictSetDefault(d, patch) ==
    [k \in (DOMAIN d) \cup (DOMAIN patch) |->
        IF k \in DOMAIN d THEN d[k] ELSE patch[k]]

DictUpdate(d, patch) ==
    [k \in (DOMAIN d) \cup (DOMAIN patch) |->
        IF k \in DOMAIN patch THEN patch[k] ELSE d[k]]

PatchedIfTruthy(st, args) ==
    [step |-> IF "step" \in DOMAIN args /\ args.step # 0 THEN args.step ELSE st.step,
     last_question |-> IF "question" \in DOMAIN args THEN args.question
                       ELSE st.last_question,
     awaiting |-> IF "awaiting" \in DOMAIN args /\ args.awaiting THEN args.awaiting
                  ELSE st.awaiting,
     context |-> IF "context" \in DOMAIN args
                 THEN DictUpdate(st.context, args.context) ELSE st.context]

Patched(st, args) ==
    [step |-> IF "step" \in DOMAIN args THEN args.step ELSE st.step,
     last_question |-> IF "question" \in DOMAIN args THEN args.question
                       ELSE st.last_question,
     awaiting |-> IF "awaiting" \in DOMAIN args THEN args.awaiting
                  ELSE st.awaiting,
     context |-> IF "context" \in DOMAIN args
                 THEN DictUpdate(st.context, args.context) ELSE st.context]

UpsertAll(r, session_id, st) ==
    [s \in (DOMAIN r) \cup {session_id} |->
        [current_step |-> st.step,
         last_question |-> st.last_question,
         awaiting_reply |-> IF st.awaiting THEN 1 ELSE 0,
         context_json |-> st.context]]

Upsert(r, session_id, st) ==
    [s \in (DOMAIN r) \cup {session_id} |->
        IF s = session_id
        THEN [current_step |-> st.step,
              last_question |-> st.last_question,
              awaiting_reply |-> IF st.awaiting THEN 1 ELSE 0,
              context_json |-> st.context]
        ELSE r[s]]

store_interaction(t, session_id, role, content, question_id) ==
    Append(t, [session_id |-> session_id, role |-> role, content |-> content,
               metadata |-> [question_id |-> question_id]])

Min(a, b) == IF a < b THEN a ELSE b

TurnsOf(t, session_id) ==
    {i \in 1..Len(t) : t[i].session_id = session_id}

retrieve_context(t, session_id, limit) ==
    Min(limit, Cardinality(TurnsOf(t, session_id)))

(* The operations of SentinelMemory called one at a time by a single       *)
(* caller.  stamps[i] is the CURRENT_TIMESTAMP default of the i-th row of  *)
(* conversations, in seconds; clock is the wall clock.  execute never      *)
(* reads the timestamps (line 254 uses the length of the history only),    *)
(* so they are recorded by these direct operations alone.  ids are the     *)
(* values store_interaction has returned, sres is the latest operation     *)
(* and its result.                                                         *)

NoStoreResult == [op |-> "none"]

StoreInit ==
    /\ clock = 0
    /\ stamps = <<>>
    /\ ids = <<>>
    /\ sres = NoStoreResult

Restrict(f, D) == [k \in D |-> f[k]]

ContextPatches ==
    {[last_reply |-> "ok"], [last_reply |-> "need Tool", task |-> "ok"]}

UpdateArgs ==
    {Restrict(a, D) :
        a \in [step : {0, 2}, question : {Question(0).text},
               awaiting : BOOLEAN, context : ContextPatches],
        D \in SUBSET {"step", "question", "awaiting", "context"}}

(* lines 104-128 *)
UpdateState(session_id, args) ==
    /\ rows' = Upsert(rows, session_id, Patched(get_state(rows, session_id), args))
    /\ sres' = [op |-> "update", session_id |-> session_id, args |-> args]
    /\ UNCHANGED <<turns, clock, stamps, ids>>

(* cursor.lastrowid of an AUTOINCREMENT table from which nothing is deleted *)
lastrowid_per_session(t, session_id) == Cardinality(TurnsOf(t, session_id))

lastrowid(t, session_id) == Len(t)

(* lines 74-85 *)
AppendTurn(session_id, role, content, question_id) ==
    /\ Len(turns) < MaxTurns
    /\ turns' = store_interaction(turns, session_id, role, content, question_id)
    /\ stamps' = Append(stamps, clock)
    /\ ids' = Append(ids, lastrowid(turns', session_id))
    /\ sres' = [op |-> "append", session_id |-> session_id,
                id |-> lastrowid(turns', session_id)]
    /\ UNCHANGED <<rows, clock>>

(* a second passes *)
Tick ==
    /\ clock < MaxClock
    /\ clock' = clock + 1
    /\ UNCHANGED <<rows, turns, stamps, ids, sres>>

(* lines 132-138: the rows of the session, ORDER BY timestamp DESC LIMIT ?, *)
(* as sequences of row numbers; the statement leaves the order of rows     *)
(* with equal timestamps open                                              *)
Histories(t, st, session_id, limit) ==
    {h \in SeqsUpTo(TurnsOf(t, session_id), Min(limit, Len(t))) :
        /\ Len(h) = Min(limit, Cardinality(TurnsOf(t, session_id)))
        /\ \A i, j \in 1..Len(h) : i < j => h[i] # h[j] /\ st[h[i]] >= st[h[j]]
        /\ \A k \in TurnsOf(t, session_id) :
              (\A i \in 1..Len(h) : h[i] # k) =>
                 \A i \in 1..Len(h) : st[h[i]] >= st[k]}

(* lines 130-140 *)
RecentTurns(session_id, limit) ==
    /\ \E h \in Histories(turns, stamps, session_id, limit) :
          sres' = [op |-> "retrieve", session_id |-> session_id,
                   limit |-> limit, history |-> h]
    /\ UNCHANGED <<rows, turns, clock, stamps, ids>>

----------------------------------------------------------------------------
(* ConversationSkill.execute, one step per store operation.  pc[p] names   *)
(* the source line of the store operation the invocation p performs next;  *)
(* "r" and "w" are the SELECT and the upsert of one update_state call.     *)

StoreOps == {"L216", "L229", "L237r", "L237w", "L244", "L249",
             "L267r", "L267w", "L275", "L283r", "L283w"}

NoCall == [session_id |-> "s1", user_input |-> NoInput,
           trigger_conversation |-> FALSE, request |-> "ok"]

NoResult == [action |-> "none"]

IdleResponse(session_id) ==
    [action |-> "idle", session_id |-> session_id,
     message |-> "No conversation active"]

CompleteResponse(session_id, history) ==
    [action |-> "complete", session_id |-> session_id, summary |-> history,
     message |-> "Conversation completed. Returning to monitoring."]

AskResponseZeroBased(session_id, st) ==
    [action |-> "ask", session_id |-> session_id,
     question |-> Question(st.step).text,
     question_type |-> Question(st.step).type,
     required |-> Question(st.step).required,
     step |-> st.step,
     total_steps |-> Len(QUESTIONS)]

AskResponse(session_id, st) ==
    [action |-> "ask", session_id |-> session_id,
     question |-> Question(st.step).text,
     question_type |-> Question(st.step).type,
     required |-> Question(st.step).required,
     step |-> st.step + 1,
     total_steps |-> Len(QUESTIONS)]

ErrorAsIdle == [action |-> "idle"]

ErrorResponse == [action |-> "error"]

NotActiveUnlessInput(c, st) ==
    ~c.trigger_conversation /\ st.step = 0 /\ ~Truthy(c.user_input)

NotActive(c, st) == ~c.trigger_conversation /\ st.step = 0

ProcessReplyAlways(c, st) == st.awaiting

ProcessReplyStarted(c, st) == st.step > 0 /\ Truthy(c.user_input)

ProcessReply(c, st) == st.awaiting /\ Truthy(c.user_input)

IsComplete(st) == st.step >= Len(QUESTIONS)

LastReply(st) ==
    IF "last_reply" \in DOMAIN st.context THEN st.context["last_reply"] ELSE ""

SkipAnyQuestion(st) ==
    LET last_reply == Lower(Chars(LastReply(st)))
    IN  /\ ~Contains(Chars("maintenance"), last_reply)
        /\ ~Contains(Chars("tool"), last_reply)

SkipWhenTriggered(st) ==
    /\ Question(st.step).type = "conditional"
    /\ LET last_reply == Lower(Chars(LastReply(st)))
       IN  \/ Contains(Chars("maintenance"), last_reply)
           \/ Contains(Chars("tool"), last_reply)

SkipConditional(st) ==
    /\ Question(st.step).type = "conditional"
    /\ LET last_reply == Lower(Chars(LastReply(st)))
       IN  /\ ~Contains(Chars("maintenance"), last_reply)
           /\ ~Contains(Chars("tool"), last_reply)

(* lines 246-274: which store operation follows for the loaded state *)
NextOp(st) ==
    IF IsComplete(st) THEN "L249"
    ELSE IF SkipConditional(st) THEN "L267r"
    ELSE "L275"

ReplyArgsAdvancing(c, st) ==
    [step |-> st.step + 1, awaiting |-> FALSE,
     context |-> [last_reply |-> c.user_input]]

ReplyArgs(c, st) ==
    [step |-> st.step, awaiting |-> FALSE,
     context |-> [last_reply |-> c.user_input]]

SkipArgsSameStep(st) == [step |-> st.step, awaiting |-> FALSE]

SkipArgs(st) == [step |-> st.step + 1, awaiting |-> FALSE]

AskArgsSameStep(st) ==
    [step |-> st.step, question |-> Question(st.step).text,
     awaiting |-> TRUE]

AskArgsSkippingOne(st) ==
    [step |-> st.step + 2, question |-> Question(st.step).text,
     awaiting |-> TRUE]

AskArgs(st) ==
    [step |-> st.step + 1, question |-> Question(st.step).text,
     awaiting |-> TRUE]

ConvInit ==
    /\ rows = [s \in {} |-> ZeroState]
    /\ turns = <<>>
    /\ pc = [p \in Procs |-> "idle"]
    /\ loc = [p \in Procs |-> NoCall]
    /\ state = [p \in Procs |-> ZeroState]
    /\ ustate = [p \in Procs |-> ZeroState]
    /\ result = [p \in Procs |-> NoResult]
    /\ exc = [p \in Procs |-> "none"]
    /\ lastAction = [s \in AllSessions |-> "none"]
    /\ askResponses = [s \in AllSessions |-> {}]
    /\ calls = 0
    /\ depth = [p \in Procs |-> 0]

(* execute returns res to main, which prints it and exits *)
Return(p, res) ==
    /\ pc' = [pc EXCEPT ![p] = "idle"]
    /\ result' = [result EXCEPT ![p] = res]
    /\ state' = [state EXCEPT ![p] = ZeroState]
    /\ ustate' = [ustate EXCEPT ![p] = ZeroState]
    /\ loc' = [loc EXCEPT ![p] = NoCall]
    /\ depth' = [depth EXCEPT ![p] = 0]
    /\ lastAction' = [lastAction EXCEPT ![loc[p].session_id] = res.action]
    /\ askResponses' =
          IF res.action = "ask"
          THEN [askResponses EXCEPT ![loc[p].session_id] = @ \cup {res}]
          ELSE askResponses

Goto(p, label) ==
    /\ pc' = [pc EXCEPT ![p] = label]
    /\ UNCHANGED <<loc, result, lastAction, askResponses, depth>>

(* line 272: execute calls itself with the same context *)
Recurse(p) ==
    /\ depth[p] < MaxDepth
    /\ pc' = [pc EXCEPT ![p] = "L216"]
    /\ depth' = [depth EXCEPT ![p] = @ + 1]
    /\ UNCHANGED <<loc, result, lastAction, askResponses>>

(* main parses stdin and calls execute (lines 304-323, 209-213); request   *)
(* says what stdin held: "ok" a JSON object with a session_id, "bad_json"  *)
(* text that is not JSON, "no_session" a JSON object without session_id    *)
Start(p, request, session_id, user_input, trigger_conversation, limit) ==
    /\ pc[p] = "idle"
    /\ calls < limit
    /\ calls' = calls + 1
    /\ loc' = [loc EXCEPT ![p] = [session_id |-> session_id,
                                  user_input |-> user_input,
                                  trigger_conversation |-> trigger_conversation,
                                  request |-> request]]
    /\ pc' = [pc EXCEPT ![p] = "L216"]
    /\ result' = [result EXCEPT ![p] = NoResult]
    /\ exc' = [exc EXCEPT ![p] = "none"]
    /\ UNCHANGED <<rows, turns, state, ustate, lastAction, askResponses, depth>>

Call(p, session_id, user_input, trigger_conversation, limit) ==
    Start(p, "ok", session_id, user_input, trigger_conversation, limit)

(* lines 309-310: text that is not JSON becomes the empty context *)
CallBadJson(p, limit) ==
    /\ calls < Len(GeneratedIds)
    /\ Start(p, "bad_json", GeneratedIds[calls + 1], NoInput, FALSE, limit)

(* line 211: a context without session_id gets a made-up one *)
CallNoSession(p, user_input, trigger_conversation, limit) ==
    /\ calls < Len(GeneratedIds)
    /\ Start(p, "no_session", GeneratedIds[calls + 1], user_input,
             trigger_conversation, limit)

(* line 216, and the recursive call of line 272 *)
GetState(p) ==
    /\ pc[p] = "L216"
    /\ LET st == get_state(rows, loc[p].session_id)
       IN  IF NotActive(loc[p], st)
           THEN Return(p, IdleResponse(loc[p].session_id))
           ELSE /\ state' = [state EXCEPT ![p] = st]
                /\ Goto(p, IF ProcessReply(loc[p], st) THEN "L229" ELSE NextOp(st))
                /\ UNCHANGED ustate
    /\ UNCHANGED <<rows, turns, exc, calls>>

(* lines 229-234 *)
StoreReply(p) ==
    /\ pc[p] = "L229"
    /\ turns' = store_interaction(turns, loc[p].session_id, "user",
                                  loc[p].user_input, Question(state[p].step - 1).id)
    /\ Goto(p, "L237r")
    /\ UNCHANGED <<rows, state, ustate, exc, calls>>

(* line 106: update_state reads the row it is about to rewrite *)
UpdateRead(p) ==
    /\ pc[p] \in {"L237r", "L267r", "L283r"}
    /\ ustate' = [ustate EXCEPT ![p] = get_state(rows, loc[p].session_id)]
    /\ Goto(p, CASE pc[p] = "L237r" -> "L237w"
                 [] pc[p] = "L267r" -> "L267w"
                 [] pc[p] = "L283r" -> "L283w")
    /\ UNCHANGED <<rows, turns, state, exc, calls>>

(* lines 237-242 (upsert of lines 108-128) *)
UpdateReply(p) ==
    /\ pc[p] = "L237w"
    /\ rows' = Upsert(rows, loc[p].session_id,
                      Patched(ustate[p], ReplyArgs(loc[p], state[p])))
    /\ Goto(p, "L244")
    /\ UNCHANGED <<turns, state, ustate, exc, calls>>

(* line 244 *)
Reload(p) ==
    /\ pc[p] = "L244"
    /\ LET st == get_state(rows, loc[p].session_id)
       IN  /\ state' = [state EXCEPT ![p] = st]
           /\ Goto(p, NextOp(st))
    /\ UNCHANGED <<rows, turns, ustate, exc, calls>>

(* lines 249-256 *)
Complete(p) ==
    /\ pc[p] = "L249"
    /\ Return(p, CompleteResponse(loc[p].session_id,
                    retrieve_context(turns, loc[p].session_id, HistoryLimit)))
    /\ UNCHANGED <<rows, turns, exc, calls>>

(* lines 267-272: the upsert, then execute calls itself *)
UpdateSkip(p) ==
    /\ pc[p] = "L267w"
    /\ rows' = Upsert(rows, loc[p].session_id, Patched(ustate[p], SkipArgs(state[p])))
    /\ Recurse(p)
    /\ UNCHANGED <<turns, state, ustate, exc, calls>>

(* lines 275-280 *)
StoreQuestion(p) ==
    /\ pc[p] = "L275"
    /\ turns' = store_interaction(turns, loc[p].session_id, "assistant",
                                  Question(state[p].step).text,
                                  Question(state[p].step).id)
    /\ Goto(p, "L283r")
    /\ UNCHANGED <<rows, state, ustate, exc, calls>>

(* lines 283-298 *)
UpdateAsk(p) ==
    /\ pc[p] = "L283w"
    /\ rows' = Upsert(rows, loc[p].session_id, Patched(ustate[p], AskArgs(state[p])))
    /\ Return(p, AskResponse(loc[p].session_id, state[p]))
    /\ UNCHANGED <<turns, exc, calls>>

(* a store operation raises; execute has no handler, main (lines 325-331) *)
(* prints the error response and exits                                     *)
Fail(p) ==
    /\ pc[p] \in StoreOps
    /\ exc' = [exc EXCEPT ![p] = pc[p]]
    /\ pc' = [pc EXCEPT ![p] = "idle"]
    /\ result' = [result EXCEPT ![p] = ErrorResponse]
    /\ state' = [state EXCEPT ![p] = ZeroState]
    /\ ustate' = [ustate EXCEPT ![p] = ZeroState]
    /\ loc' = [loc EXCEPT ![p] = NoCall]
    /\ depth' = [depth EXCEPT ![p] = 0]
    /\ UNCHANGED <<rows, turns, lastAction, askResponses, calls>>

Execute(p) ==
    \/ GetState(p)
    \/ StoreReply(p)
    \/ UpdateRead(p)
    \/ UpdateReply(p)
    \/ Reload(p)
    \/ Complete(p)
    \/ UpdateSkip(p)
    \/ StoreQuestion(p)
    \/ UpdateAsk(p)

----------------------------------------------------------------------------
(* LLM chat history: telegram_bot.py handle_message (chat mode),           *)
(* sentinel_cli.py SentinelCLI.chat_with_llm and voice_chat.py             *)
(* VoiceChat.chat keep it the same way.  An answer of NULL stands for      *)
(* ollama.chat raising, which happens after the user message was appended. *)

Programs == {"telegram_bot", "sentinel_cli", "voice_chat"}

Answers == {NULL, "sure"}

SystemPrompt == [role |-> "system", content |-> "You are Sentinel, a helpful AI assistant."]

VoiceSystemPrompt == [role |-> "system", content |-> "You are Sentinel, a helpful voice assistant."]

UserMessage(content) == [role |-> "user", content |-> content]

AssistantMessage(content) == [role |-> "assistant", content |-> content]

(* history[-n:] *)
LastN(history, n) ==
    IF Len(history) <= n THEN history
    ELSE SubSeq(history, Len(history) - n + 1, Len(history))

Trimmed(history) ==
    IF Len(history) > HistoryCap
    THEN <<history[1]>> \o LastN(history, KeepLast)
    ELSE history

Exchange(history, user_content, answer) ==
    LET asked == Append(history, UserMessage(user_content))
    IN  IF answer = NULL THEN asked
        ELSE Trimmed(Append(asked, AssistantMessage(answer)))

ChatHistoriesInit ==
    /\ chat_history = <<SystemPrompt>>
    /\ messages = <<VoiceSystemPrompt>>

ChatInit ==
    /\ program = "telegram_bot"
    /\ ChatHistoriesInit

chat_with_llm(user_input, available, answer) ==
    /\ program = "sentinel_cli"
    /\ Len(chat_history) < MaxChatLen
    /\ chat_history' = IF available THEN Exchange(chat_history, user_input, answer)
                       ELSE chat_history
    /\ UNCHANGED <<user_sessions, chat_mode, bot, update, handled, notice, now,
                   program, messages>>

(* sentinel_cli.py settings menu, "Reset chat history" *)
ResetChatHistory ==
    /\ program = "sentinel_cli"
    /\ chat_history' = <<chat_history[1]>>
    /\ UNCHANGED <<user_sessions, chat_mode, bot, update, handled, notice, now,
                   program, messages>>

chat(user_input, answer) ==
    /\ program = "voice_chat"
    /\ Len(messages) < MaxChatLen
    /\ messages' = Exchange(messages, user_input, answer)
    /\ UNCHANGED <<user_sessions, chat_mode, bot, update, handled, notice, now,
                   program, chat_history>>

----------------------------------------------------------------------------
(* telegram_bot.py.  The handlers run one at a time (the application       *)
(* processes updates sequentially and subprocess.run blocks); a handler    *)
(* that runs conversation_skill.py starts the invocation "p1" and resumes  *)
(* when it has exited.  update is the Update being handled, handled counts *)
(* the updates received, notice[u] is the kind of the last message the bot *)
(* sent to u, now the seconds of the event loop's clock.                   *)

NoUpdate == [kind |-> "none", user |-> "u1", text |-> ""]

TelegramInit ==
    /\ user_sessions = [u \in {} |-> NoCall]
    /\ chat_mode = [u \in {} |-> NoCall]
    /\ bot = "idle"
    /\ update = NoUpdate
    /\ handled = 0
    /\ notice = [u \in Users |-> "none"]
    /\ now = 0

(* data.get(key, default) *)
Get(data, key, default) == IF key \in DOMAIN data THEN data[key] ELSE default

(* d[key] = value *)
Assigned(d, key, value) ==
    [k \in DOMAIN d \cup {key} |-> IF k = key THEN value ELSE d[k]]

DeletedNothing(d, key) == d

(* del d[key] *)
Deleted(d, key) == [k \in DOMAIN d \ {key} |-> d[k]]

(* result.returncode of the invocation that has exited: main exits with 1  *)
(* after printing an error response                                        *)
ReturnCode(p) == IF exc[p] = "none" THEN 0 ELSE 1

InChatModeUnlessAwaiting(u) ==
    u \in DOMAIN chat_mode /\ chat_mode[u].active /\ u \notin DOMAIN user_sessions

InChatMode(u) == u \in DOMAIN chat_mode /\ chat_mode[u].active

Receive(kind, u, text, limit) ==
    /\ program = "telegram_bot"
    /\ bot = "idle"
    /\ handled < limit
    /\ handled' = handled + 1
    /\ update' = [kind |-> kind, user |-> u, text |-> text]

(* /wake after the vision skill reported a person: lines 177-192 *)
start_conversation(u, limit) ==
    /\ Receive("wake", u, "", limit)
    /\ Call("p1", TelegramIds[u][now + 1], NoInput, TRUE, limit)
    /\ bot' = "start_conversation"
    /\ UNCHANGED <<user_sessions, chat_mode, notice, now, program,
                   chat_history, messages>>

(* lines 195-216 *)
start_conversation_done ==
    /\ bot = "start_conversation"
    /\ pc["p1"] = "idle"
    /\ bot' = "idle"
    /\ LET data == result["p1"]
           u == update.user
       IN  IF ReturnCode("p1") = 0 /\ Get(data, "action", NULL) = "ask"
           THEN /\ user_sessions' =
                      Assigned(user_sessions, u,
                               [session_id |-> Get(data, "session_id", NULL),
                                step |-> Get(data, "step", 1),
                                awaiting_reply |-> TRUE])
                /\ notice' = [notice EXCEPT ![u] = "question"]
           ELSE UNCHANGED <<user_sessions, notice>>
    /\ UNCHANGED <<cvars, chat_mode, update, handled, now, program,
                   chat_history, messages>>

(* lines 219-227 *)
chat_command(u, limit) ==
    /\ Receive("chat", u, "", limit)
    /\ chat_mode' = Assigned(chat_mode, u,
                             [active |-> TRUE, history |-> <<SystemPrompt>>])
    /\ notice' = [notice EXCEPT ![u] = "chat_on"]
    /\ UNCHANGED <<cvars, user_sessions, bot, now, program, chat_history,
                   messages>>

(* lines 258-269 *)
endchat_command(u, limit) ==
    /\ Receive("endchat", u, "", limit)
    /\ IF u \in DOMAIN chat_mode
       THEN /\ chat_mode' = Deleted(chat_mode, u)
            /\ notice' = [notice EXCEPT ![u] = "chat_off"]
       ELSE /\ notice' = [notice EXCEPT ![u] = "chat_not_active"]
            /\ UNCHANGED chat_mode
    /\ UNCHANGED <<cvars, user_sessions, bot, now, program, chat_history,
                   messages>>

(* lines 272-342: a text message that is not a command *)
handle_message(u, text, answer, limit) ==
    /\ Receive("text", u, text, limit)
    /\ IF InChatMode(u)
       THEN /\ chat_mode' = [chat_mode EXCEPT
                                ![u].history = Exchange(@, text, answer)]
            /\ notice' = [notice EXCEPT
                            ![u] = IF answer = NULL THEN "llm_error"
                                   ELSE "llm_reply"]
            /\ UNCHANGED <<cvars, bot>>
       ELSE IF u \notin DOMAIN user_sessions
       THEN /\ notice' = [notice EXCEPT ![u] = "no_active"]
            /\ UNCHANGED <<cvars, bot, chat_mode>>
       ELSE IF ~user_sessions[u].awaiting_reply
       THEN UNCHANGED <<cvars, bot, chat_mode, notice>>
       ELSE /\ Call("p1", user_sessions[u].session_id, text, FALSE, limit)
            /\ bot' = "handle_message"
            /\ UNCHANGED <<chat_mode, notice>>
    /\ UNCHANGED <<user_sessions, now, program, chat_history, messages>>

(* lines 344-371 *)
handle_message_done ==
    /\ bot = "handle_message"
    /\ pc["p1"] = "idle"
    /\ bot' = "idle"
    /\ LET data == result["p1"]
           u == update.user
       IN  IF ReturnCode("p1") = 0 /\ Get(data, "action", NULL) = "ask"
           THEN /\ user_sessions' =
                      [user_sessions EXCEPT
                          ![u].step = Get(data, "step", @ + 1)]
                /\ notice' = [notice EXCEPT ![u] = "question"]
           ELSE IF ReturnCode("p1") = 0 /\ Get(data, "action", NULL) = "complete"
           THEN /\ user_sessions' = Deleted(user_sessions, u)
                /\ notice' = [notice EXCEPT ![u] = "complete"]
           ELSE UNCHANGED <<user_sessions, notice>>
    /\ UNCHANGED <<cvars, chat_mode, update, handled, now, program,
                   chat_history, messages>>

(* the event loop's clock reaches the next second; only start_conversation *)
(* reads it, so it is advanced between handlers                            *)
TelegramTick ==
    /\ program = "telegram_bot"
    /\ bot = "idle"
    /\ now < MaxNow
    /\ now' = now + 1
    /\ UNCHANGED <<cvars, user_sessions, chat_mode, bot, update, handled,
                   notice, program, chat_history, messages>>

----------------------------------------------------------------------------
(* cloud_fallback.py CloudFallback.  env is what the providers would do    *)
(* for the query: whether GET /api/tags answers 200, what ollama.chat      *)
(* returns (NULL: it raised), whether ANTHROPIC_API_KEY is set and what    *)
(* the Anthropic API returns (NULL: it raised or the package is missing).  *)
(* tried lists the query_* calls made, in order.                           *)

Responses == {NULL, "", "hi", "hello"}

QueryEnvs ==
    [ollama_up : BOOLEAN, local : Responses, api_key : BOOLEAN, cloud : Responses]

NoQuery ==
    [prefer_cloud |-> FALSE,
     env |-> [ollama_up |-> FALSE, local |-> NULL, api_key |-> FALSE, cloud |-> NULL]]

NoQueryResult ==
    [success |-> FALSE, error |-> "none", response |-> NULL, provider |-> NULL,
     tried |-> <<>>]

QueryInit ==
    /\ query = NoQuery
    /\ qres = NoQueryResult

AlwaysAvailable(env) == TRUE

check_ollama_available(env) == env.ollama_up

query_ollama(env) == env.local

query_anthropic(env) == IF ~env.api_key THEN NULL ELSE env.cloud

(* `if result:` for a result that is None or a string *)
NonEmpty(r) == r \notin {NULL, ""}

Success(response, provider, tried) ==
    [success |-> TRUE, response |-> response, provider |-> provider,
     model |-> IF provider = "ollama" THEN "qwen2.5:3b"
               ELSE "claude-3-haiku-20240307",
     tried |-> tried]

BothFailed(tried) ==
    [success |-> FALSE, error |-> "Both local and cloud LLM failed",
     response |-> NULL, provider |-> NULL, tried |-> tried]

query_with_fallback(env, prefer_cloud) ==
    IF prefer_cloud
    THEN IF NonEmpty(query_anthropic(env))
         THEN Success(query_anthropic(env), "anthropic", <<"anthropic">>)
         ELSE IF NonEmpty(query_ollama(env))
         THEN Success(query_ollama(env), "ollama", <<"anthropic", "ollama">>)
         ELSE BothFailed(<<"anthropic", "ollama">>)
    ELSE LET up == check_ollama_available(env)
             local == IF up THEN <<"ollama">> ELSE <<>>
         IN  IF up /\ NonEmpty(query_ollama(env))
             THEN Success(query_ollama(env), "ollama", local)
             ELSE IF NonEmpty(query_anthropic(env))
             THEN Success(query_anthropic(env), "anthropic",
                          local \o <<"anthropic">>)
             ELSE BothFailed(local \o <<"anthropic">>)

QueryWithFallback(env, prefer_cloud) ==
    /\ query' = [prefer_cloud |-> prefer_cloud, env |-> env]
    /\ qres' = query_with_fallback(env, prefer_cloud)

----------------------------------------------------------------------------
(* Specifications *)

(* overlapping invocations on one session, store operations may fail *)
Init ==
    /\ threshold = DefaultThreshold
    /\ consecutive = DefaultConsecutive
    /\ FilterInit
    /\ ConvInit
    /\ DecodeInit
    /\ StoreInit
    /\ TelegramInit
    /\ ChatInit
    /\ QueryInit

Next ==
    /\ UNCHANGED <<fvars, dvars, svars, tvars, qvars>>
    /\ \E p \in Procs :
          \/ \E s \in OverlapSessions, u \in OverlapInputs, t \in BOOLEAN :
                Call(p, s, u, t, MaxCalls)
          \/ Execute(p)
          \/ Fail(p)

Spec == Init /\ [][Next]_vars

(* one invocation at a time, store operations may fail *)
NextSeq ==
    /\ UNCHANGED <<fvars, dvars, svars, tvars, qvars>>
    /\ \/ \E s \in Sessions, u \in UserInputs, t \in BOOLEAN :
             Call("p1", s, u, t, MaxSeqCalls)
       \/ Execute("p1")
       \/ Fail("p1")

SpecSeq == Init /\ [][NextSeq]_vars

(* the same, and an invocation that can take a step of execute takes it *)
NextSeqFair ==
    /\ UNCHANGED <<fvars, dvars, svars, tvars, qvars>>
    /\ \/ \E s \in Sessions, u \in UserInputs, t \in BOOLEAN :
             Call("p1", s, u, t, MaxFairCalls)
       \/ Execute("p1")
       \/ Fail("p1")

SpecSeqFair ==
    /\ Init
    /\ [][NextSeqFair]_vars
    /\ WF_vars(UNCHANGED <<fvars, dvars, svars, tvars, qvars>> /\ Execute("p1"))

(* one invocation at a time, no failures *)
NextSeqOK ==
    /\ UNCHANGED <<fvars, dvars, svars, tvars, qvars>>
    /\ \/ \E s \in Sessions, u \in SeqInputs, t \in BOOLEAN :
             Call("p1", s, u, t, MaxSeqCalls)
       \/ Execute("p1")

SpecSeqOK == Init /\ [][NextSeqOK]_vars

(* one TemporalFilter instance fed a stream of confidences *)
InitFilter ==
    /\ threshold \in Thresholds
    /\ consecutive \in 0..MaxConsecutive
    /\ FilterInit
    /\ ConvInit
    /\ DecodeInit
    /\ StoreInit
    /\ TelegramInit
    /\ ChatInit
    /\ QueryInit

NextFilter ==
    /\ UNCHANGED <<cvars, dvars, svars, tvars, qvars, frames, vres>>
    /\ \/ \E c \in Confidences : Update(c)
       \/ Reset

SpecFilter == InitFilter /\ [][NextFilter]_vars

(* one VisionSkill instance, default configuration, executing on a stream *)
(* of frames                                                               *)
NextVision ==
    /\ UNCHANGED <<cvars, dvars, svars, tvars, qvars>>
    /\ \E f \in Frames : VisionExecute(f)

SpecVision == Init /\ [][NextVision]_vars

(* successive runs of vision_skill.py, each a process of its own, all with *)
(* the same configuration on stdin                                         *)
NextVisionMain ==
    /\ UNCHANGED <<cvars, dvars, svars, tvars, qvars>>
    /\ \E f \in Frames, loaded \in BOOLEAN : VisionMain(f, loaded)

SpecVisionMain == InitFilter /\ [][NextVisionMain]_vars

(* detect_person applied to one detector output *)
InitDecode ==
    /\ threshold = DefaultThreshold
    /\ consecutive = DefaultConsecutive
    /\ FilterInit
    /\ ConvInit
    /\ raw \in RawOutputs
    /\ det = NoDetection
    /\ StoreInit
    /\ TelegramInit
    /\ ChatInit
    /\ QueryInit

NextDecode ==
    /\ UNCHANGED <<fvars, cvars, svars, tvars, qvars>>
    /\ Detect

SpecDecode == InitDecode /\ [][NextDecode]_vars

(* two invocations that overlap, each on a session of its own; store       *)
(* operations may fail                                                     *)
SessionOf(p) == IF p = "p1" THEN "s1" ELSE "s2"

NextPair ==
    /\ UNCHANGED <<fvars, dvars, svars, tvars, qvars>>
    /\ \E p \in Procs :
          \/ \E u \in OverlapInputs, t \in BOOLEAN :
                Call(p, SessionOf(p), u, t, MaxPairCalls)
          \/ Execute(p)
          \/ Fail(p)

SpecPair == Init /\ [][NextPair]_vars

(* one invocation at a time, fed well-formed and malformed requests; store *)
(* operations may fail                                                     *)
NextMain ==
    /\ UNCHANGED <<fvars, dvars, svars, tvars, qvars>>
    /\ \/ \E u \in OverlapInputs, t \in BOOLEAN :
             Call("p1", "s1", u, t, MaxMainCalls)
       \/ CallBadJson("p1", MaxMainCalls)
       \/ \E u \in OverlapInputs, t \in BOOLEAN :
             CallNoSession("p1", u, t, MaxMainCalls)
       \/ Execute("p1")
       \/ Fail("p1")

SpecMain == Init /\ [][NextMain]_vars

(* one of the three programs with an LLM chat, one Telegram user *)
InitChat ==
    /\ threshold = DefaultThreshold
    /\ consecutive = DefaultConsecutive
    /\ FilterInit
    /\ ConvInit
    /\ DecodeInit
    /\ StoreInit
    /\ TelegramInit
    /\ program \in Programs
    /\ ChatHistoriesInit
    /\ QueryInit

NextChat ==
    /\ UNCHANGED <<fvars, dvars, svars, qvars>>
    /\ \/ chat_command("u1", MaxChatUpdates)
       \/ endchat_command("u1", MaxChatUpdates)
       \/ \E answer \in Answers : handle_message("u1", "ok", answer, MaxChatUpdates)
       \/ /\ \E available \in BOOLEAN, answer \in Answers :
                chat_with_llm("ok", available, answer)
          /\ UNCHANGED cvars
       \/ ResetChatHistory /\ UNCHANGED cvars
       \/ /\ \E answer \in Answers : chat("ok", answer)
          /\ UNCHANGED cvars

SpecChat == InitChat /\ [][NextChat]_vars

(* the Telegram bot: one user who uses every command and a second one who  *)
(* only sends text messages; the conversation skill's store operations may *)
(* fail                                                                    *)
NextTelegram ==
    /\ UNCHANGED <<fvars, dvars, svars, qvars>>
    /\ \/ start_conversation("u1", MaxUpdates)
       \/ start_conversation_done
       \/ chat_command("u1", MaxUpdates)
       \/ endchat_command("u1", MaxUpdates)
       \/ \E u \in Users, text \in Replies, answer \in Answers :
             handle_message(u, text, answer, MaxUpdates)
       \/ handle_message_done
       \/ TelegramTick
       \/ Execute("p1") /\ UNCHANGED tvars
       \/ Fail("p1") /\ UNCHANGED tvars

SpecTelegram == Init /\ [][NextTelegram]_vars

(* query_with_fallback called with every outcome of the providers *)
NextFallback ==
    /\ UNCHANGED <<fvars, cvars, dvars, svars, tvars>>
    /\ \E env \in QueryEnvs, prefer_cloud \in BOOLEAN :
          QueryWithFallback(env, prefer_cloud)

SpecFallback == Init /\ [][NextFallback]_vars

(* update_state called directly, one call at a time, with every choice of  *)
(* arguments on one session while another session holds the row an ask     *)
(* leaves                                                                  *)
PcVars == <<pc, loc, state, ustate, result, exc, lastAction, askResponses,
            calls, depth>>

NextState ==
    /\ UNCHANGED <<fvars, dvars, PcVars, tvars, qvars>>
    /\ \/ \E a \in UpdateArgs : UpdateState("s1", a)
       \/ UpdateState("s2", AskArgs(ZeroState))

SpecState == Init /\ [][NextState]_vars

(* store_interaction and retrieve_context called directly, one call at a   *)
(* time, on a store that holds some agent state                            *)
NextTurns ==
    /\ UNCHANGED <<fvars, dvars, PcVars, tvars, qvars>>
    /\ \/ Tick
       \/ \E s \in Sessions : AppendTurn(s, "user", "ok", Question(0).id)
       \/ \E s \in Sessions, limit \in 0..MaxLimit : RecentTurns(s, limit)
       \/ UpdateState("s1", AskArgs(ZeroState))

SpecTurns == Init /\ [][NextTurns]_vars

----------------------------------------------------------------------------
(* Properties *)

AssistantTurns(t, session_id, k) ==
    {i \in TurnsOf(t, session_id) :
        /\ t[i].role = "assistant"
        /\ t[i].content = Question(k).text
        /\ t[i].metadata.question_id = Question(k).id}

UserTurns(t, session_id, k) ==
    {i \in TurnsOf(t, session_id) :
        /\ t[i].role = "user"
        /\ t[i].metadata.question_id = Question(k).id}

Indices == 0..(Len(QUESTIONS) - 1)

(* C1: for consecutive >= 1, the value update returned for the n-th        *)
(* confidence fed to the filter (since it was created or last reset) is    *)
(* true iff n >= consecutive and each of the last `consecutive`            *)
(* confidences was strictly greater than the threshold.                    *)
C1_ConfirmedIffLastAllAbove ==
    (Len(fed) > 0 /\ consecutive >= 1) =>
        (ret <=> /\ Len(fed) >= consecutive
                 /\ \A i \in (Len(fed) - consecutive + 1)..Len(fed) :
                        fed[i] > threshold)

C1_Witness ==
    /\ threshold = 85
    /\ consecutive = 3
    /\ fed = <<90, 90, 50, 90, 90, 90>>
    /\ ret

(* C2: two overlapping execute calls for the same session that carry the   *)
(* same reply never both record it: at most one of them is past the        *)
(* insert of the user turn for the question both read as awaiting.         *)
Recorded(p) == pc[p] \in {"L237r", "L237w", "L244"}

C2_OneCallRecordsReply ==
    \A p, q \in Procs :
        (/\ p # q
         /\ Recorded(p)
         /\ Recorded(q)
         /\ loc[p].session_id = loc[q].session_id
         /\ loc[p].user_input = loc[q].user_input)
        => Cardinality({i \in UserTurns(turns, loc[p].session_id, state[p].step - 1) :
                           turns[i].content = loc[p].user_input}) <= 1

(* C3: update_state is atomic: between its read of the row and its upsert  *)
(* no other writer commits, so the row it is about to overwrite is still   *)
(* the row it read.                                                        *)
C3_UpdateStateAtomic ==
    \A p \in Procs :
        pc[p] \in {"L237w", "L267w", "L283w"} =>
            get_state(rows, loc[p].session_id) = ustate[p]

(* C4: the stored step of every session is between 0 and len(QUESTIONS).   *)
C4_StepInRange ==
    \A s \in DOMAIN rows :
        rows[s].current_step >= 0 /\ rows[s].current_step <= Len(QUESTIONS)

C4_Witness ==
    \E s \in DOMAIN rows :
        /\ rows[s].current_step = Len(QUESTIONS)
        /\ rows[s].awaiting_reply = 1
        /\ rows[s].last_question = Question(Len(QUESTIONS) - 1).text

(* C5: a session is awaiting a reply only when its step is positive and    *)
(* the last action execute returned for it was `ask`.                      *)
C5_AwaitingOnlyAfterAsk ==
    \A s \in DOMAIN rows :
        rows[s].awaiting_reply = 1 =>
            rows[s].current_step > 0 /\ lastAction[s] = "ask"

(* C6: for every ask response returned for a session there is exactly one  *)
(* assistant turn of that session with the response's question text and    *)
(* that question's id.                                                     *)
C6_AskHasOneAssistantTurn ==
    \A s \in Sessions : \A r \in askResponses[s] :
        Cardinality({i \in AssistantTurns(turns, s, r.step - 1) :
                        turns[i].content = r.question}) = 1

(* C7: the reply to a question is stored as one user turn tagged with the  *)
(* question's id, also when the recording call failed and was retried.     *)
C7_ReplyHasOneUserTurn ==
    \A s \in Sessions : \A k \in Indices :
        Cardinality(UserTurns(turns, s, k)) <= 1

(* C8: the stored step is past question k only if k's assistant turn is    *)
(* persisted or k is a conditional question, and a session is awaiting     *)
(* only if the assistant turn of question step-1 is persisted; in every    *)
(* state, in particular after a store operation failed.                    *)
C8_NoPhantomStep ==
    \A s \in DOMAIN rows :
        /\ \A k \in Indices :
              k < rows[s].current_step =>
                 \/ AssistantTurns(turns, s, k) # {}
                 \/ Question(k).type = "conditional"
        /\ rows[s].awaiting_reply = 1 =>
              /\ rows[s].current_step > 0
              /\ AssistantTurns(turns, s, rows[s].current_step - 1) # {}

C8_Witness ==
    \E p \in Procs : \E s \in Sessions :
        /\ exc[p] = "L283w"
        /\ AssistantTurns(turns, s, 1) # {}
        /\ s \in DOMAIN rows
        /\ rows[s].current_step = 1

(* C9: a call in which a store operation raised is over, without another   *)
(* store operation, and its response is the error response; no other call  *)
(* gets the error response.                                                *)
C9_FailureIsError ==
    \A p \in Procs :
        /\ exc[p] # "none" => pc[p] = "idle" /\ result[p].action = "error"
        /\ result[p].action = "error" => exc[p] # "none"

C9_Witness ==
    \E p \in Procs :
        /\ exc[p] = "L237w"
        /\ result[p].action = "error"
        /\ \E s \in Sessions : UserTurns(turns, s, 0) # {}

(* C10: once a session's step is len(QUESTIONS) it stays there, no         *)
(* assistant turn is added to the session, and every call on it that       *)
(* returns a response returns `complete` (the error response if a store    *)
(* operation raised).                                                      *)
C10_CompletionIdempotent ==
    [][\A s \in DOMAIN rows :
          rows[s].current_step = Len(QUESTIONS) =>
             /\ s \in DOMAIN rows'
             /\ rows'[s].current_step = Len(QUESTIONS)
             /\ \A k \in Indices :
                   AssistantTurns(turns', s, k) = AssistantTurns(turns, s, k)
             /\ \A p \in Procs :
                   (pc[p] # "idle" /\ pc'[p] = "idle" /\ loc[p].session_id = s)
                   => result'[p].action \in {"complete", "error"}]_vars

C10_Witness ==
    \E s \in DOMAIN rows :
        /\ rows[s].current_step = Len(QUESTIONS)
        /\ lastAction[s] = "complete"
        /\ UserTurns(turns, s, Len(QUESTIONS) - 1) # {}

(* C11: a call with trigger_conversation = false that reads step 0 for its *)
(* session (no row stored) ends at that read with `idle`, whatever its     *)
(* user_input, and changes neither the rows nor the turns.                 *)
C11_IdleIsNoOp ==
    [][\A p \in Procs :
          (/\ pc[p] = "L216"
           /\ pc'[p] # "L216"
           /\ exc'[p] = "none"
           /\ ~loc[p].trigger_conversation
           /\ get_state(rows, loc[p].session_id).step = 0)
          => /\ pc'[p] = "idle"
             /\ result'[p] = IdleResponse(loc[p].session_id)
             /\ rows' = rows
             /\ turns' = turns]_vars

C11_Witness ==
    \E s \in Sessions :
        /\ lastAction[s] = "idle"
        /\ s \notin DOMAIN rows
        /\ TurnsOf(turns, s) # {}
        /\ \E p \in Procs : result[p] = IdleResponse(s)

(* a word occurs in a string in some letter case: each character of the    *)
(* occurrence is the word's character or its capital                       *)
UpperChar(c) ==
    IF \E i \in 1..Len(LowerCase) : LowerCase[i] = c
    THEN UpperCase[CHOOSE i \in 1..Len(LowerCase) : LowerCase[i] = c]
    ELSE c

OccursAnyCase(word, s) ==
    \E k \in 0..(Len(Chars(s)) - Len(Chars(word))) :
        \A i \in 1..Len(Chars(word)) :
            Chars(s)[k + i] \in {Chars(word)[i], UpperChar(Chars(word)[i])}

MentionsTrigger(s) ==
    OccursAnyCase("maintenance", s) \/ OccursAnyCase("tool", s)

AllIdle == \A p \in Procs : pc[p] = "idle"

Asked(s, k) == \E r \in askResponses[s] : r.question = Question(k).text

(* C12: when the reply recorded for the second question mentions neither   *)
(* trigger word, the call that recorded it ends with `complete` and step   *)
(* 3, and the conditional third question is never stored nor returned.     *)
C12_UntriggeredConditionalSkipped ==
    \A s \in Sessions :
        (\E i \in UserTurns(turns, s, 1) : ~MentionsTrigger(turns[i].content))
        => /\ AssistantTurns(turns, s, 2) = {}
           /\ ~Asked(s, 2)
           /\ AllIdle => /\ s \in DOMAIN rows
                         /\ rows[s].current_step = 3
                         /\ rows[s].awaiting_reply = 0
                         /\ lastAction[s] = "complete"

C12_Witness ==
    \E s \in DOMAIN rows :
        /\ \E i \in UserTurns(turns, s, 0) : turns[i].content = "need Tool"
        /\ \E i \in UserTurns(turns, s, 1) : turns[i].content = "ok"
        /\ rows[s].current_step = 3
        /\ lastAction[s] = "complete"

(* the replies recorded before the third question is decided, latest last  *)
EarlyReplies(s) == UserTurns(turns, s, 0) \cup UserTurns(turns, s, 1)

LatestEarlyReply(s) ==
    turns[CHOOSE i \in EarlyReplies(s) : \A j \in EarlyReplies(s) : j <= i].content

(* C13: when the reply that is last_reply at the time the conditional      *)
(* question comes up mentions `maintenance` or `tool` in any letter case,  *)
(* the question is asked: its assistant turn is stored and `ask` returned. *)
C13_TriggeredConditionalAsked ==
    \A s \in DOMAIN rows :
        (/\ rows[s].current_step = 3
         /\ AllIdle
         /\ EarlyReplies(s) # {}
         /\ MentionsTrigger(LatestEarlyReply(s)))
        => /\ AssistantTurns(turns, s, 2) # {}
           /\ Asked(s, 2)

C13_Witness ==
    \E s \in DOMAIN rows :
        /\ rows[s].current_step = 3
        /\ UserTurns(turns, s, 1) # {}
        /\ LatestEarlyReply(s) = "MAINTENANCE"
        /\ Asked(s, 2)

C15_AskResult ==
    [][\A p \in Procs :
          (result'[p] # result[p] /\ result'[p].action = "ask") =>
             LET r == result'[p]
                 s == r.session_id
             IN  /\ s = loc[p].session_id
                 /\ \E k \in Indices :
                       /\ r.question = QUESTIONS[k + 1].text
                       /\ r.question_type = QUESTIONS[k + 1].type
                       /\ r.required = QUESTIONS[k + 1].required
                       /\ r.step = k + 1
                       /\ r.total_steps = Len(QUESTIONS)
                       /\ r.step >= 1 /\ r.step <= r.total_steps
                       /\ s \in DOMAIN rows'
                       /\ rows'[s].current_step = r.step
                       /\ rows'[s].awaiting_reply = 1
                       /\ rows'[s].last_question = r.question
                       /\ AssistantTurns(turns', s, k) # {}]_vars

C15_Witness ==
    \E p \in Procs :
        /\ result[p].action = "ask"
        /\ result[p].step = 3
        /\ result[p].question_type = "conditional"
        /\ result[p].required = FALSE
        /\ rows[result[p].session_id].current_step = 3

(* C16: within one call execute calls itself at most len(QUESTIONS)        *)
(* times, each recursive call reads a stored step larger than the step     *)
(* the calling level had loaded, and every call returns.                   *)
C16_ExecuteTerminates ==
    /\ [](\A p \in Procs :
            /\ depth[p] <= Len(QUESTIONS)
            /\ (pc[p] = "L216" /\ depth[p] > 0) =>
                  get_state(rows, loc[p].session_id).step > state[p].step)
    /\ \A p \in Procs : (pc[p] # "idle") ~> (pc[p] = "idle")

C16_Witness ==
    \E p \in Procs :
        /\ depth[p] = 1
        /\ pc[p] = "L249"
        /\ state[p].step = Len(QUESTIONS)

(* C17: a frame whose capture or detection failed counts as a frame of     *)
(* confidence 0 in the debounce stream: presence is reported only when     *)
(* each of the last `consecutive` frames reported a confidence above the   *)
(* threshold, and a failed frame reports confidence 0 and no presence.     *)
C17_FailedFrameBreaksRun ==
    /\ vres.error # "none" => (vres.confidence = 0 /\ ~vres.person_present)
    /\ vres.person_present =>
          /\ Len(frames) >= consecutive
          /\ \A i \in (Len(frames) - consecutive + 1)..Len(frames) :
                frames[i] > threshold

(* C18: the window never holds more than `consecutive` entries, and it is  *)
(* the newest entries pushed since creation or reset, oldest first.        *)
C18_WindowIsFifo ==
    /\ Len(buffer) <= consecutive
    /\ LET m == Min(Len(fed), consecutive)
       IN  buffer = [i \in 1..m |-> fed[Len(fed) - m + i] > threshold]

C18_Witness ==
    /\ consecutive = 3
    /\ threshold = 85
    /\ fed = <<90, 50, 90, 85>>
    /\ buffer = <<FALSE, TRUE, FALSE>>

(* an update has just returned: one more confidence was fed *)
Updated == Len(fed') = Len(fed) + 1

StaysConfirmed ==
    (Updated /\ Len(fed) > 0 /\ ret /\ fed'[Len(fed')] > threshold) => ret'

LowInWindow ==
    \E i \in 1..Len(fed') :
        i > Len(fed') - consecutive /\ fed'[i] <= threshold

(* C19 as claimed: after update returned true it returns true for every    *)
(* further confidence above the threshold; an update at or below the       *)
(* threshold returns false, and so do the next consecutive-1 updates.      *)
C19_LevelTriggeredAnyCapacity ==
    [][/\ StaysConfirmed
       /\ (Updated /\ fed'[Len(fed')] <= threshold) => ~ret'
       /\ (Updated /\ LowInWindow) => ~ret']_vars

(* C19, amended: the same, the second half for consecutive >= 1.           *)
C19_LevelTriggered ==
    [][/\ StaysConfirmed
       /\ (Updated /\ consecutive >= 1 /\ fed'[Len(fed')] <= threshold) => ~ret'
       /\ (Updated /\ LowInWindow) => ~ret']_vars

C19_Witness ==
    /\ consecutive = 3
    /\ threshold = 85
    /\ fed = <<90, 90, 90, 90, 85, 90>>
    /\ ~ret

(* C20: reset empties the window and leaves threshold and capacity as      *)
(* they were; a filter that has been fed fewer than `consecutive`          *)
(* confidences since its reset (or creation) holds as many entries and     *)
(* has not returned true.                                                  *)
C20_ResetLikeNew ==
    /\ [][(fed # <<>> /\ fed' = <<>>) =>
             /\ buffer' = <<>>
             /\ threshold' = threshold
             /\ consecutive' = consecutive]_vars
    /\ [](Len(fed) < consecutive =>
             /\ Len(buffer) = Len(fed)
             /\ Len(fed) > 0 => ~ret)

C20_Witness ==
    /\ consecutive = 3
    /\ ret
    /\ fed = <<>>
    /\ buffer = <<>>

(* the largest element of a non-empty set of numbers *)
SetMax(S) == CHOOSE m \in S : \A x \in S : x <= m

PersonConfidences(boxes) ==
    {boxes[i][2] : i \in {j \in 1..Len(boxes) : boxes[j][1] = 0}}

(* C21: for a readable image with parsed detections, detect_person returns *)
(* no error and the largest confidence among the pairs of class 0, and 0   *)
(* when there is no such pair; pairs of other classes do not count.        *)
C21_ParsedDecode ==
    (det.done /\ raw.readable /\ raw.layout = "parsed") =>
        /\ det.error = "none"
        /\ det.confidence = SetMax({0} \cup PersonConfidences(raw.data))

C21_Witness ==
    /\ det.done
    /\ raw.readable
    /\ raw.layout = "parsed"
    /\ raw.data = << <<0, 85>>, <<1, 90>>, <<0, 50>> >>
    /\ det.confidence = 85

(* the candidate's person score is not exceeded by another class's score *)
PersonIsTop(d) ==
    \A c \in 1..(Len(d) - 4) : d[4 + c] <= d[5]

TopPersonScores(detections) ==
    {detections[i][5] : i \in {j \in 1..Len(detections) : PersonIsTop(detections[j])}}

ZeroGeometry(detections) ==
    [i \in 1..Len(detections) |->
        [j \in 1..Len(detections[i]) |-> IF j <= 4 THEN 0 ELSE detections[i][j]]]

(* C22: for a readable image with a raw tensor, detect_person returns no   *)
(* error and the largest person score among the candidates whose person    *)
(* score no other class exceeds, 0 when there is none; the result is the   *)
(* one obtained with every geometry value set to 0.                        *)
C22_TensorDecode ==
    (det.done /\ raw.readable /\ raw.layout = "tensor") =>
        /\ det.error = "none"
        /\ det.confidence = SetMax({0} \cup TopPersonScores(raw.data))
        /\ det.confidence = detect_person([raw EXCEPT !.data = ZeroGeometry(@)]).confidence

C22_Witness ==
    /\ det.done
    /\ raw.readable
    /\ raw.layout = "tensor"
    /\ raw.data = << <<320, 240, 99, 60, 50, 90>>, <<320, 240, 99, 60, 10, 10>> >>
    /\ det.confidence = 10

(* the store operations that are a get_state: lines 216 and 244, and the   *)
(* read of line 106 in each update_state                                   *)
ExecuteReads == {"L216", "L244"}

UpdateReads == {"L237r", "L267r", "L283r"}

(* C23: a get_state for a session without a stored row can always         *)
(* complete, and what it returns is step 0, no last question, awaiting     *)
(* false and an empty context: execute either returns idle on it or goes   *)
(* on with that state, update_state patches that state.                    *)
C23_MissingRowIsZeroState ==
    /\ [](\A p \in Procs :
            /\ pc[p] = "L216" => ENABLED GetState(p)
            /\ pc[p] \in UpdateReads => ENABLED UpdateRead(p))
    /\ [][\A p \in Procs :
            (/\ pc[p] \in ExecuteReads \cup UpdateReads
             /\ pc'[p] # pc[p]
             /\ exc'[p] = "none"
             /\ loc[p].session_id \notin DOMAIN rows)
            => /\ pc[p] \in UpdateReads =>
                     /\ ustate'[p].step = 0
                     /\ ustate'[p].last_question = NULL
                     /\ ustate'[p].awaiting = FALSE
                     /\ DOMAIN ustate'[p].context = {}
               /\ pc[p] \in ExecuteReads =>
                     \/ result'[p] = IdleResponse(loc[p].session_id)
                     \/ /\ state'[p].step = 0
                        /\ state'[p].last_question = NULL
                        /\ state'[p].awaiting = FALSE
                        /\ DOMAIN state'[p].context = {}
                        /\ pc'[p] = "L275"]_vars

C23_Witness ==
    \E p \in Procs :
        /\ pc[p] = "L283w"
        /\ loc[p].session_id \notin DOMAIN rows
        /\ ustate[p] = ZeroState
        /\ Cardinality(AssistantTurns(turns, loc[p].session_id, 0)) = 2

(* an update_state call has just been made *)
UpdateDone == sres'.op = "update" /\ (sres' # sres \/ rows' # rows)

(* C24: after update_state(session, args) the session's state has, for     *)
(* each of step, question and awaiting, the argument's value when the      *)
(* argument was given (0 and false included) and the value it had before   *)
(* otherwise; its context has the keys it had and the keys of the patch,   *)
(* the patched keys with the patch's values, the others as before.         *)
C24_PartialUpdate ==
    [][UpdateDone =>
          LET a == sres'.args
              old == get_state(rows, sres'.session_id)
              new == get_state(rows', sres'.session_id)
              patch == IF "context" \in DOMAIN a THEN a.context ELSE EmptyContext
          IN  /\ new.step = IF "step" \in DOMAIN a THEN a.step ELSE old.step
              /\ new.last_question =
                    IF "question" \in DOMAIN a THEN a.question ELSE old.last_question
              /\ new.awaiting =
                    IF "awaiting" \in DOMAIN a THEN a.awaiting ELSE old.awaiting
              /\ DOMAIN new.context = (DOMAIN old.context) \cup (DOMAIN patch)
              /\ \A k \in DOMAIN patch : new.context[k] = patch[k]
              /\ \A k \in (DOMAIN old.context) \ (DOMAIN patch) :
                    new.context[k] = old.context[k]]_vars

C24_Witness ==
    /\ sres.op = "update"
    /\ sres.args = [step |-> 0, context |-> [last_reply |-> "ok"]]
    /\ get_state(rows, sres.session_id) =
          [step |-> 0, last_question |-> Question(0).text, awaiting |-> TRUE,
           context |-> [last_reply |-> "ok", task |-> "ok"]]

(* C25: what retrieve_context(session, limit) returns are turns of that    *)
(* session, at most `limit` of them, and of any two of them the one        *)
(* appended later comes first, also when both carry the same timestamp.    *)
C25_RecentTurnsOrdered ==
    sres.op = "retrieve" =>
        LET h == sres.history
        IN  /\ \A i \in 1..Len(h) : turns[h[i]].session_id = sres.session_id
            /\ Len(h) <= sres.limit
            /\ \A i, j \in 1..Len(h) : i < j => h[i] > h[j]

(* a store_interaction call has just returned *)
AppendDone == sres'.op = "append" /\ Len(ids') = Len(ids) + 1

(* C26: store_interaction adds one turn, of the session it was called for, *)
(* after the existing turns, which stay as they are with their timestamps; *)
(* it leaves every agent-state row as it is, and the identifier it returns *)
(* is greater than every identifier returned before, whatever the session. *)
C26_PureAppend ==
    [][AppendDone =>
          /\ Len(turns') = Len(turns) + 1
          /\ SubSeq(turns', 1, Len(turns)) = turns
          /\ SubSeq(stamps', 1, Len(stamps)) = stamps
          /\ turns'[Len(turns')].session_id = sres'.session_id
          /\ rows' = rows
          /\ ids'[Len(ids')] = sres'.id
          /\ \A i \in 1..Len(ids) : ids[i] < sres'.id]_vars

C26_Witness ==
    /\ sres.op = "append"
    /\ Len(ids) = 3
    /\ turns[1].session_id = "s1"
    /\ turns[2].session_id = "s2"
    /\ turns[3].session_id = "s1"
    /\ "s1" \in DOMAIN rows

(* the turns of one session, in the order they were appended *)
RECURSIVE TurnSeqOf(_, _)
TurnSeqOf(t, session_id) ==
    IF t = <<>> THEN <<>>
    ELSE IF t[Len(t)].session_id = session_id
    THEN Append(TurnSeqOf(SubSeq(t, 1, Len(t) - 1), session_id), t[Len(t)])
    ELSE TurnSeqOf(SubSeq(t, 1, Len(t) - 1), session_id)

(* the row of a session, present or not, is the same in r1 and r2 *)
SameRow(r1, r2, s) ==
    /\ s \in DOMAIN r1 <=> s \in DOMAIN r2
    /\ s \in DOMAIN r1 => r1[s] = r2[s]

(* invocation p takes a step of execute *)
Steps(p) == pc[p] # "idle" /\ pc'[p] # pc[p]

Returns(p) == Steps(p) /\ pc'[p] = "idle" /\ exc'[p] = "none"

(* C27: a step of a call for session A leaves the row and the turns of     *)
(* every other session as they are, whatever a call for another session    *)
(* is doing meanwhile; and what the call returns is told by A's own row    *)
(* and turns: idle only on A's step 0, ask with the step A's row now has   *)
(* and the question of A's newest turn, complete with the count of A's     *)
(* turns.                                                                  *)
C27_SessionsIndependent ==
    [][\A p \in Procs :
          LET A == loc[p].session_id
          IN  /\ Steps(p) =>
                    \A B \in Sessions \ {A} :
                        /\ SameRow(rows, rows', B)
                        /\ TurnSeqOf(turns', B) = TurnSeqOf(turns, B)
              /\ Returns(p) =>
                    /\ result'[p].session_id = A
                    /\ result'[p].action = "idle" =>
                          get_state(rows, A).step = 0 /\ SameRow(rows, rows', A)
                    /\ result'[p].action = "ask" =>
                          LET mine == TurnSeqOf(turns', A)
                          IN  /\ result'[p].step = rows'[A].current_step
                              /\ result'[p].step = get_state(rows, A).step + 1
                              /\ mine[Len(mine)].content = result'[p].question
                    /\ result'[p].action = "complete" =>
                          /\ rows'[A].current_step = Len(QUESTIONS)
                          /\ result'[p].summary =
                                Min(HistoryLimit, Len(TurnSeqOf(turns, A)))]_vars

C27_Witness ==
    /\ pc["p1"] = "L283w"
    /\ pc["p2"] = "L237w"
    /\ loc["p1"].session_id = "s1"
    /\ loc["p2"].session_id = "s2"
    /\ DOMAIN rows = {"s2"}
    /\ rows["s2"].current_step = 1
    /\ TurnSeqOf(turns, "s1") # <<>>

(* C28: a call whose request is malformed (not JSON, or without a          *)
(* session_id) changes neither the rows nor the turns, and what it returns *)
(* is the error response.                                                  *)
C28_MalformedIsError ==
    [][\A p \in Procs :
          (Steps(p) /\ loc[p].request # "ok") =>
             /\ rows' = rows
             /\ turns' = turns
             /\ pc'[p] = "idle" => result'[p].action = "error"]_vars

(* C29: a call without user_input (absent or empty) on a session that is   *)
(* awaiting the reply to question k, with step = k+1 < len(QUESTIONS),     *)
(* does not record a reply and does not ask question k again: its only     *)
(* write moves the step to k+2, it returns `ask` for question k+1, or,     *)
(* having skipped the conditional question k+1, `complete`; question k     *)
(* has no user turn.                                                       *)
C29_NoWaitForReply ==
    [][\A p \in Procs :
          LET s == loc[p].session_id
          IN  /\ (/\ Steps(p)
                  /\ ~Truthy(loc[p].user_input)
                  /\ depth[p] = 0
                  /\ s \in DOMAIN rows
                  /\ rows[s].awaiting_reply = 1
                  /\ rows[s].current_step < Len(QUESTIONS))
                 => LET k == rows[s].current_step - 1
                    IN  /\ pc'[p] # "L229"
                        /\ UserTurns(turns', s, k) = {}
                        /\ rows' # rows => rows'[s].current_step = k + 2
                        /\ pc'[p] = "idle" =>
                              /\ result'[p].action = "ask"
                              /\ result'[p].question = Question(k + 1).text
                              /\ result'[p].step = k + 2
                              /\ rows'[s].current_step = k + 2
                              /\ Cardinality(AssistantTurns(turns', s, k)) = 1
              /\ (Returns(p) /\ ~Truthy(loc[p].user_input) /\ depth[p] > 0)
                 => /\ result'[p].action = "complete"
                    /\ rows[s].current_step = Len(QUESTIONS)
                    /\ UserTurns(turns, s, Len(QUESTIONS) - 2) = {}]_vars

C29_Witness ==
    \E s \in DOMAIN rows :
        /\ rows[s].current_step = Len(QUESTIONS)
        /\ rows[s].awaiting_reply = 1
        /\ UserTurns(turns, s, 0) # {}
        /\ UserTurns(turns, s, 1) = {}
        /\ AssistantTurns(turns, s, 2) # {}
        /\ lastAction[s] = "ask"

(* C30: whatever the interleaving of overlapping calls on one session, no  *)
(* write lowers the stored step of a session; in particular the update     *)
(* that records a reply (lines 237-242) does not.                          *)
C30_StepNeverDecreases ==
    [][\A s \in DOMAIN rows :
          /\ s \in DOMAIN rows'
          /\ rows'[s].current_step >= rows[s].current_step]_vars

(* the catalog index of a question id *)
QIndex(id) == CHOOSE k \in Indices : Question(k).id = id

AssistantRows(t, session_id) ==
    {i \in TurnsOf(t, session_id) : t[i].role = "assistant"}

(* C31: with calls one after the other and no failure, the assistant turns *)
(* of a session, in the order they were appended, carry question ids of    *)
(* strictly increasing catalog index (catalog order, no question twice),   *)
(* and no step of a call lowers the stored step of a session.              *)
C31_QuestionsInOrder ==
    /\ [](\A s \in Sessions : \A i, j \in AssistantRows(turns, s) :
             i < j => QIndex(turns[i].metadata.question_id)
                        < QIndex(turns[j].metadata.question_id))
    /\ [][\A s \in DOMAIN rows :
             /\ s \in DOMAIN rows'
             /\ rows'[s].current_step >= rows[s].current_step]_vars

C31_Witness ==
    \E s \in DOMAIN rows :
        /\ Cardinality(AssistantRows(turns, s)) = Len(QUESTIONS)
        /\ UserTurns(turns, s, 1) = {}
        /\ rows[s].current_step = Len(QUESTIONS)

UserRows(t, session_id) ==
    {i \in TurnsOf(t, session_id) : t[i].role = "user"}

(* what the call p has read for `awaiting`: the row at line 216, the       *)
(* state it loaded afterwards                                              *)
ReadAwaiting(p) ==
    IF pc[p] = "L216" THEN get_state(rows, loc[p].session_id).awaiting
    ELSE state[p].awaiting

(* C32: a user turn is appended only by a call that carries a non-empty    *)
(* user_input and read awaiting = true, and it holds that input; a call    *)
(* with a user_input that read awaiting = false appends no user turn and   *)
(* leaves the context as it is; with calls one after the other and no      *)
(* failure a session has at most as many user turns as assistant turns.    *)
C32_RepliesOnlyWhenAwaiting ==
    /\ [][\A s \in Sessions :
             UserRows(turns', s) # UserRows(turns, s) =>
                \E p \in Procs :
                   /\ Steps(p)
                   /\ loc[p].session_id = s
                   /\ Truthy(loc[p].user_input)
                   /\ state[p].awaiting
                   /\ s \in DOMAIN rows /\ rows[s].awaiting_reply = 1
                   /\ turns' = Append(turns, turns'[Len(turns')])
                   /\ turns'[Len(turns')].content = loc[p].user_input]_vars
    /\ [][\A p \in Procs :
             (Steps(p) /\ Truthy(loc[p].user_input) /\ ~ReadAwaiting(p)) =>
                /\ UserRows(turns', loc[p].session_id) = UserRows(turns, loc[p].session_id)
                /\ get_state(rows', loc[p].session_id).context
                      = get_state(rows, loc[p].session_id).context]_vars
    /\ [](\A s \in Sessions :
             Cardinality(UserRows(turns, s)) <= Cardinality(AssistantRows(turns, s)))

C32_Witness ==
    \E p \in Procs :
        /\ pc[p] = "L249"
        /\ depth[p] = 0
        /\ loc[p].user_input = "ok"
        /\ UserRows(turns, loc[p].session_id) = {}
        /\ Cardinality(AssistantRows(turns, loc[p].session_id)) = 2

(* the content of the user turn of a session appended last before row n *)
LatestReplyBefore(s, n) ==
    turns[CHOOSE i \in UserRows(turns, s) :
            i < n /\ \A j \in UserRows(turns, s) : j < n => j <= i].content

(* C33: between calls, a session that has a user turn has a row whose      *)
(* context.last_reply is the content of the user turn appended last; and   *)
(* the conditional question is stored only when the user turn appended     *)
(* last before it mentions a trigger word.                                 *)
C33_LastReplyIsLatest ==
    /\ AllIdle =>
          \A s \in Sessions :
              UserRows(turns, s) # {} =>
                 /\ s \in DOMAIN rows
                 /\ LastReply(get_state(rows, s)) =
                       LatestReplyBefore(s, Len(turns) + 1)
    /\ \A s \in Sessions : \A n \in AssistantTurns(turns, s, 2) :
          (\E i \in UserRows(turns, s) : i < n) =>
             MentionsTrigger(LatestReplyBefore(s, n))

(* C34: a run of the vision skill's main starts from an empty window and   *)
(* pushes at most one entry, so with temporal_frames >= 2 its result has   *)
(* person_present = false and trigger_conversation = false, whatever the   *)
(* earlier runs saw.                                                       *)
C34_SingleRunNeverConfirms ==
    /\ Len(buffer) <= 1
    /\ Len(fed) <= 1
    /\ consecutive >= 2 => (~vres.person_present /\ ~vres.trigger_conversation)

C34_Witness ==
    /\ consecutive = 2
    /\ threshold = 85
    /\ frames = <<90, 90, 90, 90>>
    /\ buffer = <<TRUE>>
    /\ ~vres.person_present

(* C35: with consecutive = 1 update returns true exactly when the          *)
(* confidence it was given is above the threshold; with consecutive = 0    *)
(* the window is empty after every update and update returns true for      *)
(* every confidence, those at or below the threshold included.             *)
C35_SmallCapacities ==
    /\ [][(Updated /\ consecutive = 1) =>
             /\ ret' = (fed'[Len(fed')] > threshold)
             /\ buffer' = <<fed'[Len(fed')] > threshold>>]_vars
    /\ [][(Updated /\ consecutive = 0) => (buffer' = <<>> /\ ret')]_vars
    /\ []((consecutive = 0 /\ fed # <<>>) => (buffer = <<>> /\ ret))

C35_Witness ==
    /\ consecutive = 0
    /\ threshold = 85
    /\ fed = <<90, 50>>
    /\ buffer = <<>>
    /\ ret

C35_WitnessOne ==
    /\ consecutive = 1
    /\ threshold = 85
    /\ fed = <<90, 85, 90>>
    /\ buffer = <<TRUE>>
    /\ ret

(* the chat history of the running program *)
History(u) ==
    IF program = "sentinel_cli" THEN chat_history
    ELSE IF program = "voice_chat" THEN messages
    ELSE IF u \in DOMAIN chat_mode THEN chat_mode[u].history
    ELSE <<SystemPrompt>>

(* C36: after every chat exchange the history starts with the system       *)
(* prompt and has at most 11 entries, also after an exchange in which the  *)
(* LLM call failed after the user message was appended.                    *)
C36_HistoryBounded ==
    \A u \in Users :
        /\ History(u)[1].role = "system"
        /\ Len(History(u)) <= HistoryCap

(* chat_mode holds an active entry for u *)
ChatActive(u) == u \in DOMAIN chat_mode /\ chat_mode[u].active

(* the step is the bot receiving a text message of u that is no command *)
TextFrom(u) ==
    /\ handled' = handled + 1
    /\ update'.kind = "text"
    /\ update'.user = u

(* the step starts no invocation of the conversation skill and changes     *)
(* nothing in its store                                                    *)
EngineUntouched ==
    /\ calls' = calls
    /\ pc' = pc
    /\ rows' = rows
    /\ turns' = turns

(* C37: a user's entry in user_sessions is set only by start_conversation  *)
(* on an `ask` response, removed only by handle_message on a `complete`    *)
(* response, which always removes it; a text message of a user without an  *)
(* entry and outside chat mode gets the no-active-conversation notice and  *)
(* is not forwarded to the conversation skill.                             *)
C37_SessionEntryLifetime ==
    /\ [][\A u \in Users :
             (u \notin DOMAIN user_sessions /\ u \in DOMAIN user_sessions') =>
                /\ bot = "start_conversation"
                /\ update.user = u
                /\ exc["p1"] = "none"
                /\ result["p1"].action = "ask"
                /\ user_sessions'[u] =
                      [session_id |-> result["p1"].session_id,
                       step |-> result["p1"].step,
                       awaiting_reply |-> TRUE]]_vars
    /\ [][\A u \in Users :
             (u \in DOMAIN user_sessions /\ u \notin DOMAIN user_sessions') =>
                /\ bot = "handle_message"
                /\ update.user = u
                /\ exc["p1"] = "none"
                /\ result["p1"].action = "complete"]_vars
    /\ [][(bot = "handle_message" /\ bot' = "idle" /\ exc["p1"] = "none"
              /\ result["p1"].action = "complete") =>
                update.user \notin DOMAIN user_sessions']_vars
    /\ [][\A u \in Users :
             (TextFrom(u) /\ u \notin DOMAIN user_sessions /\ ~ChatActive(u)) =>
                /\ notice'[u] = "no_active"
                /\ EngineUntouched
                /\ bot' = "idle"
                /\ user_sessions' = user_sessions]_vars

C37_Witness ==
    /\ "u1" \notin DOMAIN user_sessions
    /\ lastAction[TelegramIds["u1"][1]] = "complete"
    /\ update = [kind |-> "text", user |-> "u1", text |-> "ok"]
    /\ notice["u1"] = "no_active"

(* the state the conversation skill holds for the session of u's entry *)
SessionRow(r, u) == get_state(r, user_sessions[u].session_id)

(* C38 as claimed: in chat mode a text message goes to the LLM chat and    *)
(* not to the conversation skill, and the user's safety session keeps its  *)
(* step and awaiting flag for as long as chat mode stays active.           *)
C38_ChatModeFreezesSession ==
    /\ [][\A u \in Users :
             (TextFrom(u) /\ ChatActive(u)) =>
                /\ EngineUntouched
                /\ bot' = "idle"
                /\ user_sessions' = user_sessions
                /\ \E a \in Answers :
                      chat_mode'[u].history =
                         Exchange(chat_mode[u].history, update'.text, a)]_vars
    /\ [][\A u \in Users :
             (/\ ChatActive(u)
              /\ u \in DOMAIN chat_mode'
              /\ u \in DOMAIN user_sessions) =>
                /\ u \in DOMAIN user_sessions'
                /\ user_sessions'[u] = user_sessions[u]
                /\ SessionRow(rows', u).step = SessionRow(rows, u).step
                /\ SessionRow(rows', u).awaiting = SessionRow(rows, u).awaiting]_vars

(* C38, amended: the same, the second half for every step that is not part *)
(* of a start_conversation run for that user.                              *)
C38_ChatModeRoutesToLLM ==
    /\ [][\A u \in Users :
             (TextFrom(u) /\ ChatActive(u)) =>
                /\ EngineUntouched
                /\ bot' = "idle"
                /\ user_sessions' = user_sessions
                /\ \E a \in Answers :
                      chat_mode'[u].history =
                         Exchange(chat_mode[u].history, update'.text, a)]_vars
    /\ [][\A u \in Users :
             (/\ ChatActive(u)
              /\ u \in DOMAIN chat_mode'
              /\ u \in DOMAIN user_sessions
              /\ ~(bot = "start_conversation" /\ update.user = u)) =>
                /\ u \in DOMAIN user_sessions'
                /\ user_sessions'[u] = user_sessions[u]
                /\ SessionRow(rows', u).step = SessionRow(rows, u).step
                /\ SessionRow(rows', u).awaiting = SessionRow(rows, u).awaiting]_vars

C38_Witness ==
    /\ ChatActive("u1")
    /\ "u1" \in DOMAIN user_sessions
    /\ user_sessions["u1"].awaiting_reply
    /\ SessionRow(rows, "u1").awaiting
    /\ SessionRow(rows, "u1").step = 1
    /\ update = [kind |-> "text", user |-> "u1", text |-> "need Tool"]
    /\ chat_mode["u1"].history =
          <<SystemPrompt, UserMessage("need Tool"), AssistantMessage("sure")>>
    /\ turns # <<>>
    /\ \A i \in 1..Len(turns) : turns[i].role = "assistant"

(* the providers in the order of preference *)
Preference(prefer_cloud) ==
    IF prefer_cloud THEN <<"anthropic", "ollama">> ELSE <<"ollama", "anthropic">>

(* a non-empty response is there for the provider to give *)
Produces(env, provider) ==
    IF provider = "ollama" THEN env.local \notin {NULL, ""}
    ELSE env.api_key /\ env.cloud \notin {NULL, ""}

ResponseOf(env, provider) == IF provider = "ollama" THEN env.local ELSE env.cloud

(* the providers query_with_fallback gets to ask: both, but for the local  *)
(* one in the default order when the availability check fails              *)
ProvidersAsked(q) ==
    IF ~q.prefer_cloud /\ ~q.env.ollama_up THEN <<"anthropic">>
    ELSE Preference(q.prefer_cloud)

Queried == qres # NoQueryResult

(* C39: query_with_fallback asks the providers in the order of preference, *)
(* stops at the first that gives a non-empty response and returns it with  *)
(* success = true and that provider's name; it returns success = false     *)
(* only when none of the providers it asked gave one; in the default order *)
(* the local provider is not asked when the availability check fails.      *)
C39_FirstProviderWins ==
    Queried =>
        LET order == ProvidersAsked(query)
            tried == qres.tried
        IN  /\ Len(tried) \in 1..Len(order)
            /\ tried = SubSeq(order, 1, Len(tried))
            /\ \A i \in 1..(Len(tried) - 1) : ~Produces(query.env, tried[i])
            /\ qres.success <=> Produces(query.env, tried[Len(tried)])
            /\ qres.success =>
                  /\ qres.provider = tried[Len(tried)]
                  /\ qres.response = ResponseOf(query.env, qres.provider)
            /\ ~qres.success =>
                  /\ tried = order
                  /\ qres.provider = NULL
                  /\ qres.response = NULL
            /\ (~query.prefer_cloud /\ ~query.env.ollama_up) =>
                  \A i \in 1..Len(tried) : tried[i] # "ollama"

C39_Witness ==
    /\ query = [prefer_cloud |-> FALSE,
                env |-> [ollama_up |-> FALSE, local |-> "hi",
                         api_key |-> TRUE, cloud |-> "hello"]]
    /\ qres.success
    /\ qres.provider = "anthropic"
    /\ qres.response = "hello"
    /\ qres.tried = <<"anthropic">>

C39_WitnessCloudFirst ==
    /\ query = [prefer_cloud |-> TRUE,
                env |-> [ollama_up |-> FALSE, local |-> "hi",
                         api_key |-> TRUE, cloud |-> ""]]
    /\ qres.success
    /\ qres.provider = "ollama"
    /\ qres.tried = <<"anthropic", "ollama">>

====
